---- MODULE Spec2Model ----
(***************************************************************************)
(* Model of the office booking server (src/server.js and its variants):    *)
(* the recurrence evaluator, the availability checker, the one-year        *)
(* horizon scan and the priority ordered auto-assignment, together with    *)
(* the HTTP handlers that admit and remove bookings.                       *)
(*                                                                         *)
(* Variants.  The repository holds several generations of the server; the  *)
(* variable variant names the file the process runs: "server.js",          *)
(* "server_fixed_upload.js", "part_004" (an earlier generation without the *)
(* horizon scan and the duration limit) and "part_002" (the earliest one,  *)
(* without weekly rules, e-mail checks and the cancel link).               *)
(*                                                                         *)
(* Dates.  A date string YYYY-MM-DD is modelled by its day number, day 0   *)
(* being 2024-01-01 (a Monday).  `new Date(dateStr)` is the instant of UTC *)
(* midnight of that day; instants are counted in hours since day 0.  The   *)
(* getters getDay/getDate/getFullYear/getMonth and the setters setDate/    *)
(* setFullYear of a JavaScript Date work on the LOCAL calendar fields of   *)
(* the server process, toISOString on the UTC ones; tz is the process's    *)
(* UTC offset in hours.                                                    *)
(*                                                                         *)
(* Times.  A time string HH:MM (zero padded, as the pages' time pickers    *)
(* send it) is the pair <<HH, MM>>; the handlers compare the strings,      *)
(* which is the lexicographic order of the pairs, and parse them into      *)
(* minutes only for the duration limit.                                    *)
(*                                                                         *)
(* Specifications.  Spec is the server handling admissions, deletions and  *)
(* cancellations one after another over a fixed registry.  SpecAuto adds   *)
(* a client that keeps the response it got and an admin who edits the      *)
(* space registry.  SpecConc has several clients with requests in flight   *)
(* at once; Node runs each route's callback to its response before it      *)
(* takes up the next request, so a handler is one step.  SpecScan runs the *)
(* loop of checkRecurringAvailability one pass at a time, in a zone with   *)
(* or without daylight saving time.  SpecRules posts bookings whose rule   *)
(* objects lack the fields isRecurringOnDate reads.                        *)
(***************************************************************************)
EXTENDS Integers, Sequences, FiniteSets, TLC

VARIABLES variant, tz, spaces, bookings, nextId, nextSpaceId, clients, scan,
          reminder, saved, verifiedEmails, verificationTokens, admins, tokens,
          nextUuid, db, saveCalls

vars == <<variant, tz, spaces, bookings, nextId, nextSpaceId, clients, scan,
          reminder, saved, verifiedEmails, verificationTokens, admins, tokens,
          nextUuid, db, saveCalls>>

\* the verified addresses, the admin accounts and their tokens
identity == <<verifiedEmails, verificationTokens, admins, tokens, nextUuid>>
\* the database tables and the calls of saveData that are writing them
database == <<db, saveCalls>>

-----------------------------------------------------------------------------
(* Bounds of the model *)

\* bookings admitted in one behaviour (ids are never reused)
MaxBookings == 2
\* calls of checkAndSendReminders on one day
MaxCallsPerDay == 2
\* spaces an admin adds in one behaviour
MaxNewSpaces == 1
\* clients with a request in flight at a time
MaxClients == 2
\* values uuidv4() hands out in one behaviour (the initial admin has the first)
MaxUuids == 4
\* calls of saveData with a database in one behaviour, and the bookings
\* admitted in it
MaxSaveCalls == 4
MaxSaveBookings == 3

\* program constant
MAX_BOOKING_HOURS == 12

\* UTC offsets (hours) of the server process
TZOffsets == {0 - 5, 0}

\* the files that define the server
Variants == {"server.js", "server_fixed_upload.js", "part_004", "part_002"}
\* the processes modelled: a file run at a UTC offset
Configurations ==
  {<<"server.js", 0>>, <<"server.js", 0 - 5>>, <<"server_fixed_upload.js", 0>>,
   <<"part_004", 0>>, <<"part_002", 0>>}

\* what the generations differ in
hasWeeklyRule(v) == v # "part_002"
hasEmailCheck(v) == v # "part_002"
hasHorizonScan(v) == v \in {"server.js", "server_fixed_upload.js"}
hasDurationLimit(v) == v \in {"server.js", "server_fixed_upload.js"}
hasPastCheck(v) == v = "server_fixed_upload.js"
hasRoleCheck(v) == v \in {"server.js", "server_fixed_upload.js"}
hasSaveData(v) == v # "part_002"

-----------------------------------------------------------------------------
(* The calendar of the JavaScript Date object *)

\* proleptic Gregorian calendar: days since 1970-01-01 -> [y, m, d], by way
\* of the day of the 400 year era, the year of the era, the day of the year
\* (years starting in March) and the month counted from March
YearOfEra(doe) == (doe - doe \div 1460 + doe \div 36524 - doe \div 146096) \div 365
DayOfYear(doe, yoe) == doe - (365 * yoe + yoe \div 4 - yoe \div 100)
MonthFromMarch(doy) == (5 * doy + 2) \div 153
CivilOf(era, yoe, doy, mp) ==
  [y |-> yoe + era * 400 + (IF mp < 10 THEN 0 ELSE 1),
   m |-> IF mp < 10 THEN mp + 3 ELSE mp - 9,
   d |-> doy - (153 * mp + 2) \div 5 + 1]
CivilOfDoe(era, doe) ==
  CivilOf(era, YearOfEra(doe), DayOfYear(doe, YearOfEra(doe)),
          MonthFromMarch(DayOfYear(doe, YearOfEra(doe))))
CivilFromDays(z0) ==
  CivilOfDoe((z0 + 719468) \div 146097, (z0 + 719468) % 146097)

\* [y, m, d] -> days since 1970-01-01; a day past the month's end rolls over
\* into the next month, as the Date constructor and setters do
DaysOf(y, mp, d) ==
  (y \div 400) * 146097 + (y % 400) * 365 + (y % 400) \div 4 - (y % 400) \div 100
    + (153 * mp + 2) \div 5 + d - 1 - 719468
DaysFromCivil(y0, m, d) ==
  IF m <= 2 THEN DaysOf(y0 - 1, m + 9, d) ELSE DaysOf(y0, m - 3, d)

\* day number (day 0 = 2024-01-01) <-> days since 1970-01-01
UnixDay(n) == n + 19723
DayNumber(y, m, d) == DaysFromCivil(y, m, d) - 19723

\* the calendar fields of a day number: year, month, day of month, weekday
\* (0 = Sunday .. 6 = Saturday)
FieldsOf(c, wd) == [y |-> c.y, m |-> c.m, d |-> c.d, wd |-> wd]
Fields(n) == FieldsOf(CivilFromDays(UnixDay(n)), (UnixDay(n) + 4) % 7)

FirstCalDay == 0 - 2
LastCalDay == 780
CalDays == FirstCalDay .. LastCalDay
Cal == [n \in CalDays |-> Fields(n)]

\* new Date('YYYY-MM-DD'): the instant of UTC midnight, in hours
ParseDate(date) == 24 * date
\* the local calendar day of an instant in a process at UTC offset off
LocalDay(off, instant) == (instant + off) \div 24
\* the local hour of day of an instant
LocalHour(off, instant) == (instant + off) % 24
\* toISOString().slice(0, 10): the UTC calendar day of an instant
ISODate(instant) == instant \div 24
\* Date.prototype.getDay / getDate on the local fields
getDay(off, instant) == Cal[LocalDay(off, instant)].wd
getDate(off, instant) == Cal[LocalDay(off, instant)].d

-----------------------------------------------------------------------------
(* Recurrence rules *)

\* A `recurring` value of a request or a booking.  obj is FALSE for false,
\* null, undefined or any non-object; a field the object lacks is Absent
\* (frequency: anything other than 'weekly' is "none").
Absent == 0 - 1
NoRule == [obj |-> FALSE, frequency |-> "none", weekday |-> Absent,
           dayOfMonth |-> Absent, nth |-> Absent]
Weekly(w) == [obj |-> TRUE, frequency |-> "weekly", weekday |-> w,
              dayOfMonth |-> Absent, nth |-> Absent]
DayOfMonth(d) == [obj |-> TRUE, frequency |-> "none", weekday |-> Absent,
                  dayOfMonth |-> d, nth |-> Absent]
NthWeekday(n, w) == [obj |-> TRUE, frequency |-> "none", weekday |-> w,
                     dayOfMonth |-> Absent, nth |-> n]
\* rule objects that lack the fields of every variant: {weekday}, {nth},
\* {frequency: 'weekly'} and {}
OnlyWeekday(w) == [obj |-> TRUE, frequency |-> "none", weekday |-> w,
                   dayOfMonth |-> Absent, nth |-> Absent]
OnlyNth(n) == [obj |-> TRUE, frequency |-> "none", weekday |-> Absent,
               dayOfMonth |-> Absent, nth |-> n]
WeeklyWithoutWeekday == [obj |-> TRUE, frequency |-> "weekly", weekday |-> Absent,
                         dayOfMonth |-> Absent, nth |-> Absent]
EmptyRule == [obj |-> TRUE, frequency |-> "none", weekday |-> Absent,
              dayOfMonth |-> Absent, nth |-> Absent]
MalformedRules == {OnlyWeekday(1), OnlyNth(3), WeeklyWithoutWeekday, EmptyRule}

\* the rules requests carry
Rules == {NoRule, Weekly(1), DayOfMonth(19)}
\* the rules the evaluator is tabulated for
RuleUniverse ==
  Rules \cup {Weekly(w) : w \in 0..6} \cup {DayOfMonth(d) : d \in {1, 19, 31}}
        \cup {NthWeekday(n, w) : n \in {1, 3, 5}, w \in {1, 5}}
        \cup MalformedRules

\* (mutant) an evaluator that takes a rule with a weekday for a weekly rule,
\* whether or not it says frequency: 'weekly'
weeklyWithoutFrequency(v, local, recurring) ==
  IF ~recurring.obj THEN FALSE
  ELSE IF hasWeeklyRule(v) /\ recurring.weekday # Absent /\ recurring.nth = Absent
  THEN local.wd = recurring.weekday
  ELSE IF recurring.dayOfMonth # Absent
  THEN local.d = recurring.dayOfMonth
  ELSE IF recurring.nth # Absent /\ recurring.weekday # Absent
  THEN IF local.wd # recurring.weekday THEN FALSE
       ELSE Cardinality({i \in 1..local.d :
               Cal[DayNumber(local.y, local.m, i)].wd = local.wd}) = recurring.nth
  ELSE FALSE

\* the body of isRecurringOnDate, local being the local calendar fields of
\* new Date(dateStr): getDay() is local.wd, getDate() is local.d, and
\* new Date(d.getFullYear(), d.getMonth(), i) is day i of the local month
ruleMatchesLocal(v, local, recurring) ==
  IF ~recurring.obj THEN FALSE
  ELSE IF hasWeeklyRule(v) /\ recurring.frequency = "weekly" /\ recurring.weekday # Absent
  THEN local.wd = recurring.weekday
  ELSE IF recurring.dayOfMonth # Absent
  THEN local.d = recurring.dayOfMonth
  ELSE IF recurring.nth # Absent /\ recurring.weekday # Absent
  THEN IF local.wd # recurring.weekday THEN FALSE
       ELSE Cardinality({i \in 1..local.d :
               Cal[DayNumber(local.y, local.m, i)].wd = local.wd}) = recurring.nth
  ELSE FALSE

\* isRecurringOnDate(dateStr, recurring) of variant v in a process at UTC
\* offset off
isRecurringOnDate(v, off, dateStr, recurring) ==
  ruleMatchesLocal(v, Cal[LocalDay(off, ParseDate(dateStr))], recurring)

\* the evaluator tabulated once over the calendar
ScanDays == 0 .. (LastCalDay - 1)
RecurringTable ==
  [v \in Variants |-> [off \in TZOffsets |-> [r \in RuleUniverse |->
      {n \in ScanDays : isRecurringOnDate(v, off, n, r)}]]]
recursOn(v, off, dateStr, recurring) == dateStr \in RecurringTable[v][off][recurring]

-----------------------------------------------------------------------------
(* Availability *)

\* comparison of two HH:MM strings
TimeLt(a, b) == a[1] < b[1] \/ (a[1] = b[1] /\ a[2] < b[2])
TimeLe(a, b) == a = b \/ TimeLt(a, b)

\* the overlap test of isSpaceAvailable for request [startTime, endTime)
\* against booking b
overlaps(b, startTime, endTime) ==
  \/ (TimeLe(b.startTime, startTime) /\ TimeLt(startTime, b.endTime))
  \/ (TimeLt(b.startTime, endTime) /\ TimeLe(endTime, b.endTime))
  \/ (TimeLe(startTime, b.startTime) /\ TimeLe(b.endTime, endTime))

\* does booking b occur on the date, as isSpaceAvailable decides it
occursOnDate(v, off, b, date) ==
  b.date = date \/ recursOn(v, off, date, b.recurring)

\* isSpaceAvailable against the booking list bk
isSpaceAvailableIn(v, off, bk, spaceId, date, startTime, endTime) ==
  ~ \E i \in 1..Len(bk) :
      /\ bk[i].spaceId = spaceId
      /\ occursOnDate(v, off, bk[i], date)
      /\ overlaps(bk[i], startTime, endTime)

isSpaceAvailable(spaceId, date, startTime, endTime) ==
  isSpaceAvailableIn(variant, tz, bookings, spaceId, date, startTime, endTime)

\* horizonDate: startDateObj with setFullYear(getFullYear() + 1), an instant;
\* local is the local calendar fields of startDateObj, hour its local hour
horizonOf(off, local, hour) ==
  24 * DayNumber(local.y + 1, local.m, local.d) + hour - off
horizonDate(off, firstDate) ==
  horizonOf(off, Cal[LocalDay(off, ParseDate(firstDate))],
            LocalHour(off, ParseDate(firstDate)))

\* the date strings the loop of checkRecurringAvailability produces: current
\* starts one local day after the first date and advances by setDate(+1)
\* while current <= horizonDate
loopDatesUntil(start, horizon) ==
  {ISODate(start + 24 * k) : k \in {j \in 1..367 : start + 24 * j <= horizon}}
loopDates(off, firstDate) ==
  loopDatesUntil(ParseDate(firstDate), horizonDate(off, firstDate))

\* the loop tabulated once for the first dates requests carry
FirstDates == {0, 35, 59, 371}
ScanTable == [off \in TZOffsets |-> [d \in FirstDates |-> loopDates(off, d)]]
scannedDates(off, firstDate) == ScanTable[off][firstDate]

\* the loop body: a scanned date fails when the rule recurs on it and the
\* space is not available on it
checkRecurringAvailabilityIn(v, off, bk, spaceId, firstDate, startTime, endTime, recurring) ==
  IF ~recurring.obj THEN TRUE
  ELSE ~ \E dateStr \in scannedDates(off, firstDate) \cap RecurringTable[v][off][recurring] :
           ~isSpaceAvailableIn(v, off, bk, spaceId, dateStr, startTime, endTime)

checkRecurringAvailability(spaceId, firstDate, startTime, endTime, recurring) ==
  checkRecurringAvailabilityIn(variant, tz, bookings, spaceId, firstDate,
                               startTime, endTime, recurring)

-----------------------------------------------------------------------------
(* Requests *)

\* the space registry as the process starts (ids stand for the uuids)
InitialSpaces ==
  << [id |-> 1, type |-> "office", priorityOrder |-> 1],
     [id |-> 2, type |-> "office", priorityOrder |-> 2],
     [id |-> 3, type |-> "desk", priorityOrder |-> 1],
     [id |-> 4, type |-> "desk", priorityOrder |-> 2],
     [id |-> 5, type |-> "conference", priorityOrder |-> 1],
     [id |-> 6, type |-> "conference", priorityOrder |-> 2] >>

\* space ids of requests: 0 is an id no space has, a negative id stands for a
\* string that starts with 'auto-'
UnknownSpaceId == 0
AutoSpaceId == 0 - 1
startsWithAuto(spaceId) == spaceId < 0

\* String(email).trim().toLowerCase(), on the addresses requests carry
Normalise(email) ==
  CASE email = " Amy@FBHI.net" -> "amy@fbhi.net"
    [] OTHER -> email
endsWithCompanyDomain(email) == email \in {"amy@fbhi.net"}

\* the windows requests carry: 09:00-10:00, 09:30-10:00, 10:00-10:30, the
\* zero-length 10:00-10:00 and, end before start, 10:30-09:00
T0900 == <<9, 0>>
T0930 == <<9, 30>>
T1000 == <<10, 0>>
T1030 == <<10, 30>>
Times == {T0900, T0930, T1000, T1030}
Windows == {<<T0900, T1000>>, <<T0930, T1000>>, <<T1000, T1030>>, <<T1000, T1000>>}
ReversedWindow == <<T1030, T0900>>

\* the dates requests carry: 2024-01-01 (Mon), 2024-02-05 (Mon),
\* 2025-01-06 (Mon, 371 days after the first)
Dates == {0, 35, 371}

\* past: the clock of the process is already past the requested start
Request(op, email, spaceId, type, date, w, recurring, past) ==
  [op |-> op, email |-> email, spaceId |-> spaceId, type |-> type,
   date |-> date, startTime |-> w[1], endTime |-> w[2],
   recurring |-> recurring, past |-> past]

PostRequests ==
  {Request("post", " Amy@FBHI.net", s, "", d, w, r, FALSE) :
      s \in {3, 4}, d \in Dates, w \in Windows, r \in Rules}
  \cup {Request("post", e, 3, "", 0, <<T0900, T1000>>, NoRule, FALSE) :
      e \in {"", "eve@gmail.com"}}
  \cup {Request("post", " Amy@FBHI.net", s, "", 0, <<T0900, T1000>>, NoRule, FALSE) :
      s \in {UnknownSpaceId, AutoSpaceId}}
  \cup {Request("post", " Amy@FBHI.net", 3, "", 0, ReversedWindow, NoRule, FALSE),
        Request("post", " Amy@FBHI.net", 3, "", 0, <<T0900, T1000>>, NoRule, TRUE),
        Request("post", " Amy@FBHI.net", 4, "", 0, <<T0900, T1000>>, NthWeekday(3, 5), FALSE)}
  \cup {Request("post", " Amy@FBHI.net", 4, "", 0, <<T0900, T1000>>, r, FALSE) :
      r \in {OnlyWeekday(1), OnlyNth(3)}}

AutoRequests ==
  {Request("auto", " Amy@FBHI.net", 0, "desk", d, w, NoRule, FALSE) :
      d \in Dates, w \in Windows \cup {ReversedWindow}}
  \cup {Request("auto", e, 0, "desk", 0, <<T0900, T1000>>, NoRule, FALSE) :
      e \in {"", "eve@gmail.com"}}
  \cup {Request("auto", " Amy@FBHI.net", 0, "lounge", 0, <<T0900, T1000>>, NoRule, FALSE),
        Request("auto", " Amy@FBHI.net", 0, "desk", 0, <<T0900, T1000>>, NoRule, TRUE)}

\* the requests of the clients that wait for their responses
ClientRequests ==
  {Request("post", " Amy@FBHI.net", 3, "", 371, <<T0900, T1000>>, NoRule, FALSE),
   Request("post", " Amy@FBHI.net", 3, "", 0, <<T0930, T1000>>, Weekly(1), FALSE),
   Request("auto", " Amy@FBHI.net", 0, "desk", 0, <<T0900, T1000>>, NoRule, FALSE)}

-----------------------------------------------------------------------------
(* Handlers.  Each is one synchronous callback: it runs from its first     *)
(* statement to the response without yielding to another request.          *)

Response(status, error, id, spaceId) ==
  [status |-> status, error |-> error, id |-> id, spaceId |-> spaceId]

minutes(t) == t[1] * 60 + t[2]

storedEmail(email) == IF hasEmailCheck(variant) THEN Normalise(email) ELSE email

Booking(id, req, spaceId, rec) ==
  [id |-> id, email |-> storedEmail(req.email), spaceId |-> spaceId,
   date |-> req.date, startTime |-> req.startTime, endTime |-> req.endTime,
   recurring |-> rec]

\* const rec = recurring && typeof recurring === 'object' ? recurring : false
recOf(recurring) == IF recurring.obj THEN recurring ELSE NoRule

\* POST /api/bookings: the response to req in the current state
postBookingResponse(req) ==
  IF req.email = "" THEN Response(400, "Missing fields", 0, 0)
  ELSE IF hasEmailCheck(variant) /\ ~endsWithCompanyDomain(Normalise(req.email))
  THEN Response(400, "Email must be a @fbhi.net address", 0, 0)
  ELSE IF startsWithAuto(req.spaceId)
  THEN Response(400, "Use /api/bookings/auto for auto-booking", 0, 0)
  ELSE IF ~ \E i \in 1..Len(spaces) : spaces[i].id = req.spaceId
  THEN Response(404, "Space not found", 0, 0)
  ELSE IF hasPastCheck(variant) /\ req.past
  THEN Response(400, "Cannot book a date/time in the past", 0, 0)
  ELSE IF hasDurationLimit(variant) /\ minutes(req.endTime) < minutes(req.startTime)
  THEN Response(400, "End time must be after start time", 0, 0)
  ELSE IF /\ hasDurationLimit(variant)
          /\ minutes(req.endTime) - minutes(req.startTime) > MAX_BOOKING_HOURS * 60
  THEN Response(400, "Bookings cannot exceed 12 hours", 0, 0)
  ELSE IF ~isSpaceAvailable(req.spaceId, req.date, req.startTime, req.endTime)
  THEN Response(400, "Space is not available for the requested time", 0, 0)
  ELSE IF /\ hasHorizonScan(variant)
          /\ recOf(req.recurring).obj
          /\ ~checkRecurringAvailability(req.spaceId, req.date, req.startTime,
                                         req.endTime, recOf(req.recurring))
  THEN Response(400, "Recurring booking conflicts with an existing booking in a future period", 0, 0)
  ELSE Response(200, "", nextId, req.spaceId)

\* (mutant) bookings.push ahead of the horizon scan
pushBeforeScan(req, res) ==
  IF res.status = 200 \/ (res.status = 400 /\ recOf(req.recurring).obj
                            /\ isSpaceAvailable(req.spaceId, req.date, req.startTime,
                                                req.endTime))
  THEN Append(bookings, Booking(nextId, req, req.spaceId, recOf(req.recurring)))
  ELSE bookings

\* the booking list after POST /api/bookings answered res to req
postBookingPush(req, res) ==
  IF res.status = 200
  THEN Append(bookings, Booking(res.id, req, req.spaceId, recOf(req.recurring)))
  ELSE bookings

\* spaces.filter(s => s.type === type): the matching spaces in registry order
RECURSIVE filterType(_, _)
filterType(sp, type) ==
  IF sp = <<>> THEN <<>>
  ELSE IF Head(sp).type = type
       THEN <<Head(sp)>> \o filterType(Tail(sp), type)
       ELSE filterType(Tail(sp), type)

\* (mutant) insertion in front of the equals: a sort that reverses ties
RECURSIVE insertBeforeEquals(_, _)
insertBeforeEquals(sorted, x) ==
  IF sorted = <<>> THEN <<x>>
  ELSE IF x.priorityOrder - Head(sorted).priorityOrder <= 0
       THEN <<x>> \o sorted
       ELSE <<Head(sorted)>> \o insertBeforeEquals(Tail(sorted), x)

\* insertion of x into a list sorted by priorityOrder, behind its equals
RECURSIVE insertSorted(_, _)
insertSorted(sorted, x) ==
  IF sorted = <<>> THEN <<x>>
  ELSE IF x.priorityOrder - Head(sorted).priorityOrder < 0
       THEN <<x>> \o sorted
       ELSE <<Head(sorted)>> \o insertSorted(Tail(sorted), x)

\* .sort((a, b) => a.priorityOrder - b.priorityOrder) on the filtered copy;
\* Array.prototype.sort is stable
RECURSIVE sortByPriority(_)
sortByPriority(sp) ==
  IF sp = <<>> THEN <<>>
  ELSE insertSorted(sortByPriority(SubSeq(sp, 1, Len(sp) - 1)), sp[Len(sp)])

\* (mutant) the candidates left in registry order
unsortedCandidates(type) == filterType(spaces, type)

\* const candidates = spaces.filter(...).sort(...)
candidates(type) == sortByPriority(filterType(spaces, type))

\* the loop over the candidates: the first available one, 0 when none is
firstAvailable(cand, date, startTime, endTime) ==
  LET free == {i \in 1..Len(cand) :
                 isSpaceAvailable(cand[i].id, date, startTime, endTime)}
  IN  IF free = {} THEN 0
      ELSE cand[CHOOSE i \in free : \A j \in free : i <= j].id

\* GET /api/bookings/auto: the response to req in the current state
autoBookingResponse(req) ==
  IF req.type = "" \/ req.email = ""
  THEN Response(400, "Missing parameters for auto-booking", 0, 0)
  ELSE IF hasEmailCheck(variant) /\ ~endsWithCompanyDomain(Normalise(req.email))
  THEN Response(400, "Email must be a @fbhi.net address", 0, 0)
  ELSE IF hasPastCheck(variant) /\ req.past
  THEN Response(400, "Cannot book a date/time in the past", 0, 0)
  ELSE
    LET chosen == firstAvailable(candidates(req.type), req.date,
                                 req.startTime, req.endTime)
    IN  IF chosen = 0
        THEN Response(404, "No spaces available for the requested time", 0, 0)
        ELSE Response(200, "", nextId, chosen)

\* (mutant) a booking pushed whatever the answer was
pushWhateverAnswer(req, res) ==
  Append(bookings, Booking(nextId, req, res.spaceId, NoRule))

\* the booking list after GET /api/bookings/auto answered res to req
autoBookingPush(req, res) ==
  IF res.status = 200
  THEN Append(bookings, Booking(res.id, req, res.spaceId, NoRule))
  ELSE bookings

\* (mutant) the registry itself sorted: spaces.sort(...).filter(...)
sortedInPlace(req) ==
  IF req.op = "auto" THEN sortByPriority(spaces) ELSE spaces

\* the registry after an admission handler ran: filter returns a new array
\* and sort orders that copy, the handlers assign to no element of spaces
spacesAfterAdmission(req) == spaces

\* the response to and the effect of an admission request of either endpoint
admissionResponse(req) ==
  IF req.op = "post" THEN postBookingResponse(req) ELSE autoBookingResponse(req)
admissionPush(req, res) ==
  IF req.op = "post" THEN postBookingPush(req, res) ELSE autoBookingPush(req, res)

\* bookings.findIndex(b => b.id === id) >= 0
hasBooking(id) == \E i \in 1..Len(bookings) : bookings[i].id = id

\* bookings.splice(index, 1) at the index of the first booking with the id
RECURSIVE removeId(_, _)
removeId(bk, id) ==
  IF bk = <<>> THEN <<>>
  ELSE IF Head(bk).id = id THEN Tail(bk)
       ELSE <<Head(bk)>> \o removeId(Tail(bk), id)

AdminRoles == {"owner", "admin", "analyst", "frontdesk"}

\* the roles that may delete bookings and edit the registry
mayManage(role) == ~hasRoleCheck(variant) \/ role \in {"owner", "admin"}

\* DELETE /api/bookings/:id, for a request to which adminAuth gave the role
deleteBookingResponse(role, id) ==
  IF ~mayManage(role) THEN Response(403, "Forbidden", 0, 0)
  ELSE IF hasBooking(id) THEN Response(200, "", id, 0)
  ELSE Response(404, "Booking not found", 0, 0)

deleteBookingSplice(id, res) ==
  IF res.status = 200 THEN removeId(bookings, id) ELSE bookings

\* GET /cancel/:id.  server_fixed_upload.js removes the booking and then
\* answers 404, and sends no response (status 0) when there is no such
\* booking; part_002 has no such route
cancelResponse(id) ==
  IF variant = "part_002" THEN Response(404, "Cannot GET", 0, 0)
  ELSE IF variant = "server_fixed_upload.js"
  THEN (IF hasBooking(id) THEN Response(404, "Booking Not Found", id, 0)
        ELSE Response(0, "", 0, 0))
  ELSE IF hasBooking(id) THEN Response(200, "Booking Cancelled", id, 0)
  ELSE Response(404, "Booking Not Found", 0, 0)

cancelSplice(id) ==
  IF variant # "part_002" /\ hasBooking(id) THEN removeId(bookings, id)
  ELSE bookings

\* does GET /cancel/:id call saveData(): after the splice, except in
\* server_fixed_upload.js
cancelSaves(id) ==
  variant \notin {"part_002", "server_fixed_upload.js"} /\ hasBooking(id)

\* POST /api/spaces, for a request to which adminAuth gave the role
addSpaceResponse(role, type, priorityOrder) ==
  IF ~mayManage(role) THEN Response(403, "Forbidden", 0, 0)
  ELSE IF type = "" THEN Response(400, "Missing fields", 0, 0)
  ELSE Response(200, "", 0, nextSpaceId)

\* DELETE /api/spaces/:id
deleteSpaceResponse(role, id) ==
  IF ~mayManage(role) THEN Response(403, "Forbidden", 0, 0)
  ELSE IF \E i \in 1..Len(spaces) : spaces[i].id = id
  THEN Response(200, "", 0, id)
  ELSE Response(404, "Space not found", 0, 0)

\* GET /api/availability: the query parameters clients send (no date, no
\* type filter or the desks) and its answer
QueryRequests ==
  {Request("availability", "", 0, type, d, <<T0900, T1000>>, NoRule, FALSE) :
      type \in {"", "desk"}, d \in {Absent, 0}}

availabilityResponse(req) ==
  IF req.date = Absent THEN Response(400, "Missing date or time parameters", 0, 0)
  ELSE Response(200, "", 0, 0)

\* spaces.filter(s => (no type or s.type === type) and isSpaceAvailable(...))
RECURSIVE filterAvailable(_, _)
filterAvailable(sp, req) ==
  IF sp = <<>> THEN <<>>
  ELSE IF req.type # "" /\ Head(sp).type # req.type
       THEN filterAvailable(Tail(sp), req)
       ELSE IF isSpaceAvailable(Head(sp).id, req.date, req.startTime, req.endTime)
            THEN <<Head(sp)>> \o filterAvailable(Tail(sp), req)
            ELSE filterAvailable(Tail(sp), req)

availableSpaces(req) ==
  IF req.date = Absent THEN <<>> ELSE filterAvailable(spaces, req)

RECURSIVE removeSpace(_, _)
removeSpace(sp, id) ==
  IF sp = <<>> THEN <<>>
  ELSE IF Head(sp).id = id THEN Tail(sp)
       ELSE <<Head(sp)>> \o removeSpace(Tail(sp), id)

-----------------------------------------------------------------------------
(* The server handling one request after another *)

Clients == 1..MaxClients
\* a client: its position, its request, the response it got (available is
\* the list an availability query answered) and, for the properties, the
\* registry as the handler found it
Idle == [pc |-> "idle", req |-> Request("", "", 0, "", 0, <<T0900, T0900>>, NoRule, FALSE),
         res |-> Response(0, "", 0, 0), seen |-> <<>>, available |-> <<>>]

\* const admins = [{id: uuidv4(), username: 'admin@example.com', role: 'owner'}],
\* const tokens = {}, const verifiedEmails = [], const verificationTokens = {};
\* the values of uuidv4() are numbered in the order of the calls
InitialAdmin == [id |-> 1, username |-> "admin@example.com", role |-> "owner"]
InitIdentity ==
  /\ verifiedEmails = <<>>
  /\ verificationTokens = {}
  /\ admins = <<InitialAdmin>>
  /\ tokens = {}
  /\ nextUuid = 2

\* let db = null: no DATABASE_URL, saveData writes the data file only.  With
\* a database, rows are the ids in its bookings table and commits counts the
\* transactions committed
NoDb == [configured |-> FALSE, rows |-> {}, commits |-> 0]
InitDatabase ==
  /\ db = NoDb
  /\ saveCalls = <<>>

\* the horizon scan as a process: no call of checkRecurringAvailability
\* under way in a process of the zone
NoScan(zone) ==
  [pc |-> "idle", zone |-> zone, firstDate |-> Absent, rule |-> NoRule,
   current |-> 0, horizonDate |-> 0, n |-> 0, examined |-> {}, result |-> TRUE]

\* the reminder job: the local calendar day of the process clock, the calls
\* of checkAndSendReminders made on it, the keys in remindedBookings and the
\* reminders sent, oldest first
FirstClockDay == 27
LastClockDay == 35
NoReminders(today) ==
  [today |-> today, calls |-> 0, remindedBookings |-> {}, sent |-> <<>>]

Init ==
  /\ \E cfg \in Configurations : variant = cfg[1] /\ tz = cfg[2]
  /\ spaces = InitialSpaces
  /\ bookings = <<>>
  /\ nextId = 1
  /\ nextSpaceId = 7
  /\ clients = [c \in Clients |-> Idle]
  /\ scan = NoScan([std |-> tz, dst |-> FALSE])
  /\ reminder = NoReminders(FirstClockDay)
  /\ saved = <<>>
  /\ InitIdentity
  /\ InitDatabase

\* the bookings of the data file after a handler that left the list bk:
\* saveData(), when the handler calls it, writes the whole list
savedAfter(called, bk) == IF called /\ hasSaveData(variant) THEN bk ELSE saved

\* an admission is modelled while ids are left for it
admits(res) == res.status = 200 => nextId <= MaxBookings

\* a handler that answered res to req pushes the booking and saves
Admit(req, res) ==
  /\ admits(res)
  /\ bookings' = admissionPush(req, res)
  /\ nextId' = IF res.status = 200 THEN nextId + 1 ELSE nextId
  /\ spaces' = spacesAfterAdmission(req)
  /\ saved' = savedAfter(res.status = 200, admissionPush(req, res))

PostBooking ==
  /\ \E req \in PostRequests : \E res \in {postBookingResponse(req)} : Admit(req, res)
  /\ UNCHANGED <<variant, tz, identity, database, reminder, scan, nextSpaceId, clients>>

AutoBooking ==
  /\ \E req \in AutoRequests : \E res \in {autoBookingResponse(req)} : Admit(req, res)
  /\ UNCHANGED <<variant, tz, identity, database, reminder, scan, nextSpaceId, clients>>

DeleteBooking ==
  /\ \E role \in AdminRoles, id \in 1..MaxBookings :
        \E res \in {deleteBookingResponse(role, id)} :
        /\ bookings' = deleteBookingSplice(id, res)
        /\ saved' = savedAfter(res.status = 200, deleteBookingSplice(id, res))
  /\ UNCHANGED <<variant, tz, identity, database, reminder, scan, spaces, nextId, nextSpaceId, clients>>

CancelBooking ==
  /\ \E id \in 1..MaxBookings :
        /\ bookings' = cancelSplice(id)
        /\ saved' = savedAfter(cancelSaves(id), cancelSplice(id))
  /\ UNCHANGED <<variant, tz, identity, database, reminder, scan, spaces, nextId, nextSpaceId, clients>>

Next == PostBooking \/ AutoBooking \/ DeleteBooking \/ CancelBooking

Spec == Init /\ [][Next]_vars

\* POST /api/bookings with the rule objects a body can carry: no rule, a
\* weekly rule and the objects that fit no variant of isRecurringOnDate
RuleRequests ==
  {Request("post", " Amy@FBHI.net", 4, "", d, <<T0900, T1000>>, r, FALSE) :
      d \in {0, 35}, r \in MalformedRules \cup {NoRule, Weekly(1)}}

PostRuleBooking ==
  /\ \E req \in RuleRequests : \E res \in {postBookingResponse(req)} : Admit(req, res)
  /\ UNCHANGED <<variant, tz, identity, database, reminder, scan, nextSpaceId, clients>>

NextRules == PostRuleBooking \/ DeleteBooking

SpecRules == Init /\ [][NextRules]_vars

-----------------------------------------------------------------------------
(* The server with clients that wait for their responses, and an admin who *)
(* edits the space registry                                                *)

\* a request arrives; its handler has not run yet
Arrive(c) ==
  /\ clients[c].pc # "pending"
  /\ \E req \in ClientRequests :
        clients' = [clients EXCEPT ![c] = [pc |-> "pending", req |-> req,
                                           res |-> Response(0, "", 0, 0),
                                           seen |-> <<>>, available |-> <<>>]]
  /\ UNCHANGED <<variant, tz, identity, database, reminder, saved, scan, spaces, bookings, nextId, nextSpaceId>>

\* the handler of a pending request runs, start to response
Handle(c) ==
  /\ clients[c].pc = "pending"
  /\ clients[c].req.op \in {"post", "auto"}
  /\ \E res \in {admissionResponse(clients[c].req)} :
        /\ Admit(clients[c].req, res)
        /\ clients' = [clients EXCEPT ![c].pc = "done", ![c].res = res,
                                      ![c].seen = spaces]
  /\ UNCHANGED <<variant, tz, identity, database, reminder, scan, nextSpaceId>>

AddSpace ==
  /\ nextSpaceId < 7 + MaxNewSpaces
  /\ \E role \in {"admin", "analyst"}, priorityOrder \in {1, 2} :
        \E res \in {addSpaceResponse(role, "desk", priorityOrder)} :
        /\ spaces' = IF res.status = 200
                     THEN Append(spaces, [id |-> res.spaceId, type |-> "desk",
                                          priorityOrder |-> priorityOrder])
                     ELSE spaces
        /\ nextSpaceId' = IF res.status = 200 THEN nextSpaceId + 1 ELSE nextSpaceId
        /\ saved' = savedAfter(res.status = 200, bookings)
  /\ UNCHANGED <<variant, tz, identity, database, reminder, scan, bookings, nextId, clients>>

DeleteSpace ==
  /\ \E role \in {"admin", "analyst"}, id \in {3, 7} :
        \E res \in {deleteSpaceResponse(role, id)} :
        /\ spaces' = IF res.status = 200 THEN removeSpace(spaces, id) ELSE spaces
        /\ saved' = savedAfter(res.status = 200, bookings)
  /\ UNCHANGED <<variant, tz, identity, database, reminder, scan, bookings, nextId, nextSpaceId, clients>>

\* an availability query arrives; its handler has not run yet
Ask(c) ==
  /\ clients[c].pc # "pending"
  /\ \E req \in QueryRequests :
        clients' = [clients EXCEPT ![c] = [pc |-> "pending", req |-> req,
                                           res |-> Response(0, "", 0, 0),
                                           seen |-> <<>>, available |-> <<>>]]
  /\ UNCHANGED <<variant, tz, identity, database, reminder, saved, scan, spaces, bookings, nextId, nextSpaceId>>

\* the handler of GET /api/availability runs: it answers and writes nothing
Query(c) ==
  /\ clients[c].pc = "pending"
  /\ clients[c].req.op = "availability"
  /\ clients' = [clients EXCEPT ![c].pc = "done",
                                ![c].res = availabilityResponse(clients[c].req),
                                ![c].available = availableSpaces(clients[c].req),
                                ![c].seen = spaces]
  /\ UNCHANGED <<variant, tz, identity, database, reminder, saved, scan, spaces, bookings, nextId, nextSpaceId>>

\* a cancellation link is opened; its handler has not run yet
CancelRequest(id) ==
  [op |-> "cancel", id |-> id, email |-> "", spaceId |-> 0, type |-> "",
   date |-> 0, startTime |-> T0900, endTime |-> T0900, recurring |-> NoRule,
   past |-> FALSE]
AskCancel(c) ==
  /\ clients[c].pc # "pending"
  /\ \E id \in 1..MaxBookings :
        clients' = [clients EXCEPT ![c] = [pc |-> "pending", req |-> CancelRequest(id),
                                           res |-> Response(0, "", 0, 0),
                                           seen |-> <<>>, available |-> <<>>]]
  /\ UNCHANGED <<variant, tz, identity, database, reminder, saved, scan, spaces, bookings, nextId, nextSpaceId>>

\* the handler of GET /cancel/:id runs to its end; a handler that ends
\* without a response leaves the request open for good (pc "hung")
Cancel(c) ==
  /\ clients[c].pc = "pending"
  /\ clients[c].req.op = "cancel"
  /\ \E res \in {cancelResponse(clients[c].req.id)} :
        clients' = [clients EXCEPT ![c].pc = IF res.status = 0 THEN "hung" ELSE "done",
                                   ![c].res = res, ![c].seen = spaces]
  /\ bookings' = cancelSplice(clients[c].req.id)
  /\ saved' = savedAfter(cancelSaves(clients[c].req.id), cancelSplice(clients[c].req.id))
  /\ UNCHANGED <<variant, tz, identity, database, reminder, scan, spaces, nextId, nextSpaceId>>

\* one client that books and cancels; Node runs the callback of every
\* request it received
NextCancel == Arrive(1) \/ Handle(1) \/ AskCancel(1) \/ Cancel(1)
SpecCancel ==
  Init /\ [][NextCancel]_vars /\ WF_vars(Handle(1)) /\ WF_vars(Cancel(1))

\* one client and the admin
NextAuto ==
  Arrive(1) \/ Handle(1) \/ Ask(1) \/ Query(1) \/ AddSpace \/ DeleteSpace \/ CancelBooking
SpecAuto == Init /\ [][NextAuto]_vars

\* concurrent clients
NextConc == \E c \in Clients : Arrive(c) \/ Handle(c)
SpecConc == Init /\ [][NextConc]_vars

\* admission requests for every answer of the two handlers: no address, a
\* foreign address, an unknown and an 'auto-' space id, end before start,
\* thirteen hours, a one-off and a weekly booking of the same desk and hour,
\* and auto-assignment of a desk and of a category without spaces
LongWindow == <<T0900, <<22, 0>>>>
RejectRequests ==
  {Request("post", e, 3, "", 0, <<T0900, T1000>>, NoRule, FALSE) :
      e \in {"", "eve@gmail.com", " Amy@FBHI.net"}}
  \cup {Request("post", " Amy@FBHI.net", s, "", 0, <<T0900, T1000>>, NoRule, FALSE) :
      s \in {UnknownSpaceId, AutoSpaceId}}
  \cup {Request("post", " Amy@FBHI.net", 3, "", 0, w, NoRule, FALSE) :
      w \in {ReversedWindow, LongWindow}}
  \cup {Request("post", " Amy@FBHI.net", 3, "", 35, <<T0900, T1000>>, NoRule, FALSE),
        Request("post", " Amy@FBHI.net", 3, "", 0, <<T0900, T1000>>, Weekly(1), FALSE),
        Request("auto", " Amy@FBHI.net", 0, "lounge", 0, <<T0900, T1000>>, NoRule, FALSE)}
  \cup {Request("auto", e, 0, "desk", 0, <<T0900, T1000>>, NoRule, FALSE) :
      e \in {"", "eve@gmail.com", " Amy@FBHI.net"}}

\* one of these requests arrives; its handler has not run yet
Submit(c) ==
  /\ clients[c].pc # "pending"
  /\ \E req \in RejectRequests :
        clients' = [clients EXCEPT ![c] = [pc |-> "pending", req |-> req,
                                           res |-> Response(0, "", 0, 0),
                                           seen |-> <<>>, available |-> <<>>]]
  /\ UNCHANGED <<variant, tz, identity, database, reminder, saved, scan, spaces, bookings,
                 nextId, nextSpaceId>>

NextReject == Submit(1) \/ Handle(1)
SpecReject == Init /\ [][NextReject]_vars

-----------------------------------------------------------------------------
(* The loop of checkRecurringAvailability, statement by statement, in a    *)
(* process whose zone may observe daylight saving time                     *)

\* the time zones of the process: UTC, UTC-5 all year, and UTC-5 with
\* daylight saving time (America/New_York)
Zones == {[std |-> 0, dst |-> FALSE], [std |-> 0 - 5, dst |-> FALSE],
          [std |-> 0 - 5, dst |-> TRUE]}

\* daylight saving time begins at 02:00 local standard time of the first day
\* and ends at 02:00 local daylight time of the second: 2024-03-10 to
\* 2024-11-03 and 2025-03-09 to 2025-11-02
DstDays == {<<DayNumber(2024, 3, 10), DayNumber(2024, 11, 3)>>,
            <<DayNumber(2025, 3, 9), DayNumber(2025, 11, 2)>>}
inDst(zone, instant) ==
  /\ zone.dst
  /\ \E p \in DstDays : /\ 24 * p[1] + 2 - zone.std <= instant
                        /\ instant < 24 * p[2] + 1 - zone.std
offsetAt(zone, instant) == IF inDst(zone, instant) THEN zone.std + 1 ELSE zone.std

\* the wall-clock time of an instant (hours since 00:00 of local day 0) and
\* the instant of a wall-clock time outside the hours of the changeover
wallTime(zone, instant) == instant + offsetAt(zone, instant)
instantOf(zone, wall) ==
  IF inDst(zone, wall - (zone.std + 1)) THEN wall - (zone.std + 1) ELSE wall - zone.std

\* current.setDate(current.getDate() + 1): the same wall-clock hour of the
\* next local day
setDatePlusOne(zone, instant) == instantOf(zone, wallTime(zone, instant) + 24)
\* horizonDate.setFullYear(horizonDate.getFullYear() + 1): the same local
\* month, day and hour of the next year
yearLater(zone, local, hour) ==
  instantOf(zone, 24 * DayNumber(local.y + 1, local.m, local.d) + hour)
setFullYearPlusOne(zone, instant) ==
  yearLater(zone, Cal[wallTime(zone, instant) \div 24], wallTime(zone, instant) % 24)

\* the calls modelled: space, window, first dates (2024-01-01 and the leap
\* day 2024-02-29; Absent is a string that does not parse) and rules
ScanSpaceId == 3
ScanFirstDates == {Absent, 0, 59}
ScanRules == {NoRule, Weekly(1), DayOfMonth(19)}
\* the booking lists the calls run against: none, or Desk 1 taken on Monday
\* 2024-02-05 from 09:00 to 10:00
ScanBookings ==
  {<<>>, <<[id |-> 1, email |-> "amy@fbhi.net", spaceId |-> ScanSpaceId, date |-> 35,
            startTime |-> T0900, endTime |-> T1000, recurring |-> NoRule]>>}

InitScan ==
  /\ variant = "server.js"
  /\ \E zone \in Zones : tz = zone.std /\ scan = NoScan(zone)
  /\ reminder = NoReminders(FirstClockDay)
  /\ spaces = InitialSpaces
  /\ bookings \in ScanBookings
  /\ saved = bookings
  /\ InitIdentity
  /\ InitDatabase
  /\ nextId = 2
  /\ nextSpaceId = 7
  /\ clients = [c \in Clients |-> Idle]

\* the call up to the loop: the two early returns, horizonDate, and current
\* one day past the first date
ScanCall ==
  /\ scan.pc = "idle"
  /\ \E firstDate \in ScanFirstDates, recurring \in ScanRules :
        scan' = IF ~recurring.obj \/ firstDate = Absent
                THEN [scan EXCEPT !.pc = "returned", !.firstDate = firstDate,
                                  !.rule = recurring, !.result = TRUE]
                ELSE [scan EXCEPT !.pc = "loop", !.firstDate = firstDate,
                                  !.rule = recurring,
                                  !.horizonDate = setFullYearPlusOne(scan.zone, ParseDate(firstDate)),
                                  !.current = setDatePlusOne(scan.zone, ParseDate(firstDate))]
  /\ UNCHANGED <<variant, tz, identity, database, reminder, saved, spaces, bookings, nextId, nextSpaceId, clients>>

\* one pass of the loop body for dateStr = current.toISOString().slice(0, 10)
ScanStep ==
  /\ scan.pc = "loop"
  /\ scan.current <= scan.horizonDate
  /\ \E dateStr \in {ISODate(scan.current)} :
        scan' = IF /\ recursOn(variant, tz, dateStr, scan.rule)
                   /\ ~isSpaceAvailable(ScanSpaceId, dateStr, T0900, T1000)
                THEN [scan EXCEPT !.pc = "returned", !.result = FALSE,
                                  !.n = scan.n + 1,
                                  !.examined = scan.examined \cup {dateStr}]
                ELSE [scan EXCEPT !.current = setDatePlusOne(scan.zone, scan.current),
                                  !.n = scan.n + 1,
                                  !.examined = scan.examined \cup {dateStr}]
  /\ UNCHANGED <<variant, tz, identity, database, reminder, saved, spaces, bookings, nextId, nextSpaceId, clients>>

\* the loop condition fails: return true
ScanReturn ==
  /\ scan.pc = "loop"
  /\ scan.current > scan.horizonDate
  /\ scan' = [scan EXCEPT !.pc = "returned", !.result = TRUE]
  /\ UNCHANGED <<variant, tz, identity, database, reminder, saved, spaces, bookings, nextId, nextSpaceId, clients>>

NextScan == ScanCall \/ ScanStep \/ ScanReturn
\* the function is synchronous code: once called it runs on to its return
SpecScan == InitScan /\ [][NextScan]_vars /\ WF_vars(ScanStep) /\ WF_vars(ScanReturn)

-----------------------------------------------------------------------------
(* The reminder job.  checkAndSendReminders is exported by the server the  *)
(* tests of src/unnamed/part_000 load; it is modelled after these tests.   *)

\* tomorrow = new Date(now.getFullYear(), now.getMonth(), now.getDate() + 1),
\* local midnight of the next local day; tomorrowStr is its
\* toISOString().slice(0, 10)
tomorrowStr(off, today) == ISODate(24 * (today + 1) - off)

\* the key '<bookingId>|<date>'
reminderKey(b, dateStr) == <<b.id, dateStr>>

\* the keys of the stored bookings that occur on dateStr, in list order:
\* those of that date and those whose rule isRecurringOnDate finds on it
RECURSIVE occurringKeys(_, _, _, _)
occurringKeys(v, off, bk, dateStr) ==
  IF bk = <<>> THEN <<>>
  ELSE IF occursOnDate(v, off, Head(bk), dateStr)
       THEN <<reminderKey(Head(bk), dateStr)>> \o occurringKeys(v, off, Tail(bk), dateStr)
       ELSE occurringKeys(v, off, Tail(bk), dateStr)

\* the keys of a list that remindedBookings does not hold yet
newKeys(keys, reminded) == SelectSeq(keys, LAMBDA k : k \notin reminded)

\* the bookings the job runs over, as in the tests: a weekly booking for
\* Mondays and a day-of-month booking for the 1st, both from 2024-01-01 on,
\* and a single booking on Monday 2024-02-05
ReminderBookings ==
  << [id |-> 1, email |-> "amy@fbhi.net", spaceId |-> 3, date |-> 0,
      startTime |-> T0900, endTime |-> T1000, recurring |-> Weekly(1)],
     [id |-> 2, email |-> "amy@fbhi.net", spaceId |-> 4, date |-> 0,
      startTime |-> T0900, endTime |-> T1000, recurring |-> DayOfMonth(1)],
     [id |-> 3, email |-> "amy@fbhi.net", spaceId |-> 4, date |-> 35,
      startTime |-> T1000, endTime |-> T1030, recurring |-> NoRule] >>

InitRemind ==
  /\ variant = "server.js"
  /\ tz \in TZOffsets
  /\ spaces = InitialSpaces
  /\ \E k \in 1..Len(ReminderBookings) : bookings = SubSeq(ReminderBookings, 1, k)
  /\ nextId = 4
  /\ nextSpaceId = 7
  /\ clients = [c \in Clients |-> Idle]
  /\ scan = NoScan([std |-> tz, dst |-> FALSE])
  /\ reminder = NoReminders(FirstClockDay)
  /\ saved = bookings
  /\ InitIdentity
  /\ InitDatabase

\* one call of checkAndSendReminders, start to end: a reminder is sent and
\* its key recorded for every booking that occurs tomorrow and has no key yet
CheckAndSendReminders ==
  /\ reminder.calls < MaxCallsPerDay
  /\ \E due \in {newKeys(occurringKeys(variant, tz, bookings,
                                        tomorrowStr(tz, reminder.today)),
                          reminder.remindedBookings)} :
        reminder' = [reminder EXCEPT
                       !.calls = reminder.calls + 1,
                       !.sent = reminder.sent \o due,
                       !.remindedBookings =
                          reminder.remindedBookings \cup {due[i] : i \in 1..Len(due)}]
  /\ UNCHANGED <<variant, tz, identity, database, spaces, bookings, nextId, nextSpaceId, clients, scan, saved>>

\* midnight passes on the clock of the process
NextDay ==
  /\ reminder.today < LastClockDay
  /\ reminder' = [reminder EXCEPT !.today = reminder.today + 1, !.calls = 0]
  /\ UNCHANGED <<variant, tz, identity, database, spaces, bookings, nextId, nextSpaceId, clients, scan, saved>>

NextRemind == CheckAndSendReminders \/ NextDay
SpecRemind == InitRemind /\ [][NextRemind]_vars

-----------------------------------------------------------------------------
(* E-mail verification: POST /api/request-verification mails a link with a *)
(* token, GET /verify-email/:token puts the address on verifiedEmails      *)

\* the addresses the requests carry: none, a foreign one, a company one
VerificationEmails == {"", "eve@gmail.com", " Amy@FBHI.net"}

\* res.json of the verification routes: status, ok and the message or error
VerificationResponse(status, ok, message) ==
  [status |-> status, ok |-> ok, message |-> message]

includes(list, x) == \E i \in 1..Len(list) : list[i] = x

\* POST /api/request-verification with verifiedEmails = verified
requestVerificationResponseIn(verified, email) ==
  IF email = "" THEN VerificationResponse(400, FALSE, "Email is required")
  ELSE IF ~endsWithCompanyDomain(Normalise(email))
  THEN VerificationResponse(400, FALSE, "Email must be a @fbhi.net address")
  ELSE IF includes(verified, Normalise(email))
  THEN VerificationResponse(200, TRUE, "Email already verified")
  ELSE VerificationResponse(200, TRUE, "")

requestVerificationResponse(email) ==
  requestVerificationResponseIn(verifiedEmails, email)

\* the handler stores a token for an address that is not verified yet
RequestVerification ==
  /\ hasEmailCheck(variant)
  /\ nextUuid <= MaxUuids
  /\ \E email \in VerificationEmails :
        \E res \in {requestVerificationResponse(email)} :
          IF res.status = 200 /\ res.message = ""
          THEN /\ verificationTokens' = verificationTokens \cup {<<nextUuid, Normalise(email)>>}
               /\ nextUuid' = nextUuid + 1
          ELSE UNCHANGED <<verificationTokens, nextUuid>>
  /\ UNCHANGED <<variant, tz, database, reminder, saved, scan, spaces, bookings, nextId,
                 nextSpaceId, clients, verifiedEmails, admins, tokens>>

\* GET /verify-email/:token: 404 for an unknown token; otherwise the address
\* is pushed if it is not on the list (and the data saved), the token deleted
VerifyEmail ==
  /\ hasEmailCheck(variant)
  /\ \E token \in 2..MaxUuids :
        IF \E m \in verificationTokens : m[1] = token
        THEN \E m \in {m \in verificationTokens : m[1] = token} :
               /\ verifiedEmails' = IF includes(verifiedEmails, m[2]) THEN verifiedEmails
                                    ELSE Append(verifiedEmails, m[2])
               /\ saved' = savedAfter(~includes(verifiedEmails, m[2]), bookings)
               /\ verificationTokens' = verificationTokens \ {m}
        ELSE UNCHANGED <<verifiedEmails, saved, verificationTokens>>
  /\ UNCHANGED <<variant, tz, database, reminder, scan, spaces, bookings, nextId,
                 nextSpaceId, clients, admins, tokens, nextUuid>>

\* a client that books, and the verification routes
NextVerify == Arrive(1) \/ Handle(1) \/ RequestVerification \/ VerifyEmail
SpecVerify == Init /\ [][NextVerify]_vars

-----------------------------------------------------------------------------
(* Admin accounts.  POST /api/login issues a token for an account,         *)
(* adminAuth turns the token of a request into a role, the owner creates   *)
(* and deletes accounts; server_fixed_upload.js has the bootstrap route.   *)

\* the usernames the requests carry: the initial owner's and another one
AdminUsernames == {"admin@example.com", "ann@example.com"}

\* admins.find(a => a.username === username) finds an account
hasUsername(list, username) == \E i \in 1..Len(list) : list[i].username = username
\* admins.find(a => a.id === id) finds an account
hasAdmin(list, id) == \E i \in 1..Len(list) : list[i].id = id

\* adminAuth: 401 without a known token; otherwise the role of the account
\* the token was issued to, and 'admin' when admins.find returns undefined
adminAuth(token) ==
  IF ~ \E m \in tokens : m[1] = token THEN [status |-> 401, role |-> ""]
  ELSE IF \E m \in tokens : m[1] = token /\ hasAdmin(admins, m[2])
  THEN [status |-> 200,
        role |-> admins[CHOOSE i \in 1..Len(admins) :
                          <<token, admins[i].id>> \in tokens].role]
  ELSE [status |-> 200, role |-> "admin"]

\* POST /api/login: a token for the account when the password verifies
Login ==
  /\ hasRoleCheck(variant)
  /\ nextUuid <= MaxUuids
  /\ \E username \in AdminUsernames, verifies \in BOOLEAN :
        IF hasUsername(admins, username) /\ verifies
        THEN /\ tokens' = tokens \cup
                   {<<nextUuid, admins[CHOOSE i \in 1..Len(admins) :
                                          admins[i].username = username].id>>}
             /\ nextUuid' = nextUuid + 1
        ELSE UNCHANGED <<tokens, nextUuid>>
  /\ UNCHANGED <<variant, tz, database, reminder, saved, scan, spaces, bookings, nextId,
                 nextSpaceId, clients, verifiedEmails, verificationTokens, admins>>

\* POST /api/admins
createAdminResponse(token, username, role) ==
  IF adminAuth(token).status # 200 THEN Response(401, "Invalid token", 0, 0)
  ELSE IF adminAuth(token).role # "owner" THEN Response(403, "Forbidden", 0, 0)
  ELSE IF role \notin AdminRoles \/ role = "owner" THEN Response(400, "Invalid role", 0, 0)
  ELSE IF hasUsername(admins, username) THEN Response(400, "Admin already exists", 0, 0)
  ELSE Response(200, "", nextUuid, 0)

CreateAdmin ==
  /\ hasRoleCheck(variant)
  /\ nextUuid <= MaxUuids
  /\ \E token \in 2..MaxUuids, username \in AdminUsernames, role \in AdminRoles :
        \E res \in {createAdminResponse(token, username, role)} :
          /\ admins' = IF res.status = 200
                       THEN Append(admins, [id |-> res.id, username |-> username,
                                            role |-> role])
                       ELSE admins
          /\ nextUuid' = IF res.status = 200 THEN nextUuid + 1 ELSE nextUuid
          /\ saved' = savedAfter(res.status = 200, bookings)
  /\ UNCHANGED <<variant, tz, database, reminder, scan, spaces, bookings, nextId,
                 nextSpaceId, clients, verifiedEmails, verificationTokens, tokens>>

\* DELETE /api/admins/:id
ownerCount(list) == Cardinality({i \in 1..Len(list) : list[i].role = "owner"})

deleteAdminResponse(token, id) ==
  IF adminAuth(token).status # 200 THEN Response(401, "Invalid token", 0, 0)
  ELSE IF adminAuth(token).role # "owner" THEN Response(403, "Forbidden", 0, 0)
  ELSE IF ~hasAdmin(admins, id) THEN Response(404, "Admin not found", 0, 0)
  ELSE IF /\ \E i \in 1..Len(admins) : admins[i].id = id /\ admins[i].role = "owner"
          /\ ownerCount(admins) <= 1
  THEN Response(400, "Cannot delete the only owner", 0, 0)
  ELSE Response(200, "", id, 0)

DeleteAdmin ==
  /\ hasRoleCheck(variant)
  /\ \E token \in 2..MaxUuids, id \in 1..MaxUuids :
        \E res \in {deleteAdminResponse(token, id)} :
          /\ admins' = IF res.status = 200 THEN removeId(admins, id) ELSE admins
          /\ saved' = savedAfter(res.status = 200, bookings)
  /\ UNCHANGED <<variant, tz, database, reminder, scan, spaces, bookings, nextId,
                 nextSpaceId, clients, verifiedEmails, verificationTokens, tokens, nextUuid>>

\* admins[i] = adminRow at the index of the username, or admins.push(adminRow)
RECURSIVE upsertAdmin(_, _)
upsertAdmin(list, adminRow) ==
  IF list = <<>> THEN <<adminRow>>
  ELSE IF Head(list).username = adminRow.username THEN <<adminRow>> \o Tail(list)
       ELSE <<Head(list)>> \o upsertAdmin(Tail(list), adminRow)

\* POST /api/bootstrap-admin of server_fixed_upload.js, with or without the
\* BOOTSTRAP_TOKEN of the environment.  The row gets a fresh id, or, with a
\* database, the id the admins table returns: the one the username has there
BootstrapAdmin ==
  /\ variant = "server_fixed_upload.js"
  /\ nextUuid <= MaxUuids
  /\ \E tokenMatches \in BOOLEAN, username \in AdminUsernames, role \in AdminRoles :
        IF tokenMatches
        THEN \E id \in {nextUuid} \cup {admins[i].id : i \in {i \in 1..Len(admins) :
                                                   admins[i].username = username}} :
               /\ admins' = upsertAdmin(admins, [id |-> id, username |-> username,
                                                 role |-> role])
               /\ nextUuid' = nextUuid + 1
               /\ saved' = savedAfter(TRUE, bookings)
        ELSE UNCHANGED <<admins, nextUuid, saved>>
  /\ UNCHANGED <<variant, tz, database, reminder, scan, spaces, bookings, nextId,
                 nextSpaceId, clients, verifiedEmails, verificationTokens, tokens>>

NextAdmin == Login \/ CreateAdmin \/ DeleteAdmin \/ BootstrapAdmin
SpecAdmin == Init /\ [][NextAdmin]_vars

-----------------------------------------------------------------------------
(* saveData of server_fixed_upload.js with a database.  The handlers call  *)
(* it without await: it runs up to its first query inside the handler and  *)
(* then one query at a time, other handlers and other calls in between.    *)
(* db is a pool, and a call that starts while another one has a query in   *)
(* flight gets a connection of its own: each call is a transaction.  Its   *)
(* first statement, DELETE FROM spaces, waits while another transaction    *)
(* has deleted the rows of that never empty table; if that one commits,    *)
(* the rows it inserted are not seen by the waiting DELETE and the first   *)
(* INSERT INTO spaces of the waiting call fails on the primary key.  The   *)
(* model follows the bookings table; the other lists do not change here.   *)

\* the ids in a list of bookings: the rows of the table that holds the list
rowsOf(list) == {list[i].id : i \in 1..Len(list)}

\* the process at its start, with DATABASE_URL set: loadData is not defined
\* in this file, the lists are the in-memory defaults and the tables empty
InitSave ==
  /\ variant = "server_fixed_upload.js"
  /\ tz = 0
  /\ spaces = InitialSpaces
  /\ bookings = <<>>
  /\ nextId = 1
  /\ nextSpaceId = 7
  /\ clients = [c \in Clients |-> Idle]
  /\ scan = NoScan([std |-> tz, dst |-> FALSE])
  /\ reminder = NoReminders(FirstClockDay)
  /\ saved = bookings
  /\ InitIdentity
  /\ db = [configured |-> TRUE, rows |-> {}, commits |-> 0]
  /\ saveCalls = <<>>

\* a call of saveData after db.query('BEGIN') was sent: memory is the list
\* of bookings at the call, for the properties
NewCall(memory) ==
  [pc |-> "begin", memory |-> rowsOf(memory), seen |-> 0, i |-> 1, rows |-> {}]

\* saveData(): the data file is written, and with a database a call starts
saveCallsAfter(called, bk) ==
  IF called /\ db.configured THEN Append(saveCalls, NewCall(bk)) ELSE saveCalls

\* POST /api/bookings for Desk 1 on two Mondays and Desk 2 on the first
SaveRequests ==
  {Request("post", " Amy@FBHI.net", 3, "", d, <<T0900, T1000>>, NoRule, FALSE) :
      d \in {0, 35}}
  \cup {Request("post", " Amy@FBHI.net", 4, "", 0, <<T0900, T1000>>, NoRule, FALSE)}

PostAndSave ==
  /\ Len(saveCalls) < MaxSaveCalls
  /\ \E req \in SaveRequests : \E res \in {postBookingResponse(req)} :
        /\ res.status = 200 => nextId <= MaxSaveBookings
        /\ bookings' = admissionPush(req, res)
        /\ nextId' = IF res.status = 200 THEN nextId + 1 ELSE nextId
        /\ saved' = savedAfter(res.status = 200, admissionPush(req, res))
        /\ saveCalls' = saveCallsAfter(res.status = 200, admissionPush(req, res))
  /\ UNCHANGED <<variant, tz, identity, db, reminder, scan, spaces, nextSpaceId, clients>>

\* DELETE /api/bookings/:id by an admin
DeleteAndSave ==
  /\ Len(saveCalls) < MaxSaveCalls
  /\ \E id \in 1..MaxSaveBookings :
        \E res \in {deleteBookingResponse("admin", id)} :
        /\ bookings' = deleteBookingSplice(id, res)
        /\ saved' = savedAfter(res.status = 200, deleteBookingSplice(id, res))
        /\ saveCalls' = saveCallsAfter(res.status = 200, deleteBookingSplice(id, res))
  /\ UNCHANGED <<variant, tz, identity, db, reminder, scan, spaces, nextId, nextSpaceId,
                 clients>>

\* a transaction that has deleted the rows and has not ended
holdsRows(call) == call.pc \in {"bookings", "commit"}
someoneHoldsRows == \E k \in 1..Len(saveCalls) : holdsRows(saveCalls[k])

\* the DELETE statements: the rows are deleted and the spaces inserted, or
\* the first DELETE waits for the transaction that holds the rows
SaveDelete ==
  \E k \in 1..Len(saveCalls) :
    /\ saveCalls[k].pc = "begin"
    /\ saveCalls' = [saveCalls EXCEPT
          ![k].pc = IF someoneHoldsRows THEN "blocked" ELSE "bookings",
          ![k].seen = db.commits]
    /\ UNCHANGED <<variant, tz, identity, db, reminder, saved, scan, spaces, bookings,
                   nextId, nextSpaceId, clients>>

\* the waiting DELETE goes on when no transaction holds the rows: after a
\* commit the call fails on the primary key and rolls back
SaveUnblock ==
  \E k \in 1..Len(saveCalls) :
    /\ saveCalls[k].pc = "blocked"
    /\ ~someoneHoldsRows
    /\ saveCalls' = [saveCalls EXCEPT
          ![k].pc = IF db.commits > saveCalls[k].seen THEN "failed" ELSE "bookings"]
    /\ UNCHANGED <<variant, tz, identity, db, reminder, saved, scan, spaces, bookings,
                   nextId, nextSpaceId, clients>>

\* for (const b of bookings) await db.query('INSERT INTO bookings ...'): the
\* array iterator reads the length and the element at its index when the
\* previous query has returned
SaveInsert ==
  \E k \in 1..Len(saveCalls) :
    /\ saveCalls[k].pc = "bookings"
    /\ saveCalls' = IF saveCalls[k].i <= Len(bookings)
                    THEN [saveCalls EXCEPT
                            ![k].rows = saveCalls[k].rows \cup {bookings[saveCalls[k].i].id},
                            ![k].i = saveCalls[k].i + 1]
                    ELSE [saveCalls EXCEPT ![k].pc = "commit"]
    /\ UNCHANGED <<variant, tz, identity, db, reminder, saved, scan, spaces, bookings,
                   nextId, nextSpaceId, clients>>

\* await db.query('COMMIT')
SaveCommit ==
  \E k \in 1..Len(saveCalls) :
    /\ saveCalls[k].pc = "commit"
    /\ db' = [db EXCEPT !.rows = saveCalls[k].rows, !.commits = db.commits + 1]
    /\ saveCalls' = [saveCalls EXCEPT ![k].pc = "committed"]
    /\ UNCHANGED <<variant, tz, identity, reminder, saved, scan, spaces, bookings,
                   nextId, nextSpaceId, clients>>

\* a query throws: catch, ROLLBACK
SaveFail ==
  \E k \in 1..Len(saveCalls) :
    /\ saveCalls[k].pc \in {"begin", "bookings", "commit"}
    /\ saveCalls' = [saveCalls EXCEPT ![k].pc = "failed"]
    /\ UNCHANGED <<variant, tz, identity, db, reminder, saved, scan, spaces, bookings,
                   nextId, nextSpaceId, clients>>

NextSave ==
  \/ PostAndSave \/ DeleteAndSave
  \/ SaveDelete \/ SaveUnblock \/ SaveInsert \/ SaveCommit \/ SaveFail
SpecSave == InitSave /\ [][NextSave]_vars

-----------------------------------------------------------------------------
(* Properties.  They speak of calendar dates: a rule matches a date by the *)
(* weekday and the day of the month of that date, and a booking occurs on  *)
(* its own date or, with a rule, on the matching dates from its first date *)
(* on.                                                                     *)

\* the recurrence variants on the calendar date itself
RuleMatches(rule, n) ==
  IF ~rule.obj THEN FALSE
  ELSE IF rule.frequency = "weekly" /\ rule.weekday # Absent
  THEN Cal[n].wd = rule.weekday
  ELSE IF rule.dayOfMonth # Absent
  THEN Cal[n].d = rule.dayOfMonth
  ELSE IF rule.nth # Absent /\ rule.weekday # Absent
  THEN Cal[n].wd = rule.weekday /\ (Cal[n].d - 1) \div 7 + 1 = rule.nth
  ELSE FALSE
MatchingDates == [r \in RuleUniverse |-> {n \in ScanDays : RuleMatches(r, n)}]

\* the dates on which a booking (or a request) produces an occurrence
OccurrenceDates(b) ==
  IF b.recurring.obj THEN {n \in MatchingDates[b.recurring] : n >= b.date}
  ELSE {b.date}

\* the intervals [s1, e1) and [s2, e2) share an instant
Intersect(s1, e1, s2, e2) ==
  TimeLt(s1, e1) /\ TimeLt(s2, e2) /\ TimeLt(s1, e2) /\ TimeLt(s2, e1)

\* the half-open overlap rule: start < b.end AND b.start < end
HalfOpenOverlap(startTime, endTime, b) ==
  TimeLt(startTime, b.endTime) /\ TimeLt(b.startTime, endTime)

\* two bookings (or requests) on the same space collide on some date
Collide(a, b) ==
  /\ a.spaceId = b.spaceId
  /\ OccurrenceDates(a) \cap OccurrenceDates(b) # {}
  /\ Intersect(a.startTime, a.endTime, b.startTime, b.endTime)

\* C1 (as stated): in server.js, after any sequence of admissions and
\* cancellations, two stored bookings on the same space never have
\* intersecting [start,end) intervals on a date on which both occur.
C1_OccurrencesDisjoint ==
  variant = "server.js" =>
    \A i, j \in 1..Len(bookings) : i < j => ~Collide(bookings[i], bookings[j])

\* C2 (as stated): in server.js, for every space, date and window (zero-length
\* ones included) isSpaceAvailable is false exactly when some stored booking
\* of the space has the date as its own date or as a date its rule matches,
\* and start < b.end AND b.start < end.
C2_UnavailableIffHalfOpenOverlap ==
  variant = "server.js" =>
    \A spaceId \in {3, 4}, date \in Dates, w \in Windows :
      ~isSpaceAvailable(spaceId, date, w[1], w[2])
        <=> \E i \in 1..Len(bookings) :
              /\ bookings[i].spaceId = spaceId
              /\ (bookings[i].date = date \/ date \in MatchingDates[bookings[i].recurring])
              /\ HalfOpenOverlap(w[1], w[2], bookings[i])

\* the calendar dates d with firstDate < d <= firstDate + 1 year
YearAfter(firstDate) ==
  (firstDate + 1) .. DayNumber(Cal[firstDate].y + 1, Cal[firstDate].m, Cal[firstDate].d)

\* C3 (as stated): in server.js, for a request with a rule,
\* checkRecurringAvailability is false exactly when the rule matches some
\* date d, firstDate < d <= firstDate + 1 year, on which isSpaceAvailable is
\* false for the window.
C3_ScanFalseIffConflictWithinYear ==
  variant = "server.js" =>
    \A spaceId \in {3, 4}, firstDate \in Dates, w \in Windows, rule \in Rules \ {NoRule} :
      ~checkRecurringAvailability(spaceId, firstDate, w[1], w[2], rule)
        <=> \E d \in YearAfter(firstDate) \cap MatchingDates[rule] :
              ~isSpaceAvailable(spaceId, d, w[1], w[2])

\* C4 (as stated): in server.js, server_fixed_upload.js and part_004, every
\* step that stores a booking stores it in a state in which isSpaceAvailable
\* holds for its first date and, when it carries a rule,
\* checkRecurringAvailability holds for its later occurrences.
C4_StoredAfterBothChecks ==
  [][(variant \in {"server.js", "server_fixed_upload.js", "part_004"}
        /\ Len(bookings') > Len(bookings))
     => \E b \in {bookings'[Len(bookings')]} :
          /\ isSpaceAvailable(b.spaceId, b.date, b.startTime, b.endTime)
          /\ b.recurring.obj =>
               checkRecurringAvailability(b.spaceId, b.date, b.startTime,
                                          b.endTime, b.recurring)]_vars

\* a step in which the handler of GET /api/bookings/auto of server.js answers
\* client c
AutoHandled(c) ==
  /\ variant = "server.js"
  /\ clients[c].pc = "pending" /\ clients'[c].pc = "done"
  /\ clients[c].req.op = "auto"

\* the registry positions of the spaces of the requested category that are
\* available for the requested window
availableOfType(req) ==
  {i \in 1..Len(spaces) :
     /\ spaces[i].type = req.type
     /\ isSpaceAvailable(spaces[i].id, req.date, req.startTime, req.endTime)}

\* C5: auto-assignment books a space of the requested category that is
\* available for the window and whose priorityOrder no other available space
\* of the category undercuts; it does so whenever such a space exists.
C5_PicksLowestPriorityAvailable ==
  [][\A c \in Clients : AutoHandled(c) =>
        /\ availableOfType(clients[c].req) # {} => clients'[c].res.status = 200
        /\ clients'[c].res.status = 200 =>
             \E i \in availableOfType(clients[c].req) :
               /\ spaces[i].id = clients'[c].res.spaceId
               /\ \A j \in availableOfType(clients[c].req) :
                     spaces[i].priorityOrder <= spaces[j].priorityOrder
               /\ Len(bookings') = Len(bookings) + 1
               /\ bookings'[Len(bookings')].spaceId = spaces[i].id]_vars

\* C5 witness: the priority-2 desk was picked while the priority-1 desk was
\* in the registry and booked for the window by an earlier booking
C5_SecondDeskPicked ==
  /\ variant = "server.js"
  /\ clients[1].pc = "done" /\ clients[1].req.op = "auto"
  /\ clients[1].res.status = 200 /\ clients[1].res.spaceId = 4
  /\ \E i \in 1..Len(clients[1].seen) :
        clients[1].seen[i].id = 3 /\ clients[1].seen[i].priorityOrder = 1
  /\ \E i \in 1..Len(bookings) :
        /\ bookings[i].id < clients[1].res.id
        /\ bookings[i].spaceId = 3 /\ bookings[i].date = clients[1].req.date
        /\ HalfOpenOverlap(clients[1].req.startTime, clients[1].req.endTime, bookings[i])

\* C6: auto-assignment answers 404 exactly when no space of the category is
\* available for the window, and then the bookings list, the registry and the
\* id counters are what they were.
C6_NotFoundLeavesStateUnchanged ==
  [][\A c \in Clients : AutoHandled(c) =>
        /\ availableOfType(clients[c].req) = {} <=> clients'[c].res.status = 404
        /\ clients'[c].res.status = 404 =>
             /\ bookings' = bookings /\ spaces' = spaces
             /\ nextId' = nextId /\ nextSpaceId' = nextSpaceId]_vars

\* C6 witness: a 404 was answered for a category of which the registry held
\* spaces
C6_NotFoundAnswered ==
  /\ variant = "server.js"
  /\ clients[1].pc = "done" /\ clients[1].req.op = "auto"
  /\ clients[1].res.status = 404
  /\ \E i \in 1..Len(clients[1].seen) : clients[1].seen[i].type = clients[1].req.type

\* C7: among the available spaces of the category with the lowest
\* priorityOrder, auto-assignment picks the one that comes first in the
\* registry; the choice is a function of the registry, the bookings and the
\* request.
C7_TiesByRegistryOrder ==
  [][\A c \in Clients : (AutoHandled(c) /\ clients'[c].res.status = 200) =>
        \E i \in availableOfType(clients[c].req) :
          /\ clients'[c].res.spaceId = spaces[i].id
          /\ \A j \in availableOfType(clients[c].req) :
               \/ spaces[i].priorityOrder < spaces[j].priorityOrder
               \/ spaces[i].priorityOrder = spaces[j].priorityOrder /\ i <= j
          /\ \A k \in availableOfType(clients[c].req) :
               (\A j \in availableOfType(clients[c].req) :
                  \/ spaces[k].priorityOrder < spaces[j].priorityOrder
                  \/ spaces[k].priorityOrder = spaces[j].priorityOrder /\ k <= j)
               => k = i]_vars

\* C7 witness: a desk was picked while the registry held a later desk of the
\* same priorityOrder that no booking, stored or cancelled since, ever took
C7_TieBroken ==
  /\ variant = "server.js"
  /\ clients[1].pc = "done" /\ clients[1].req.op = "auto"
  /\ clients[1].res.status = 200
  /\ Len(bookings) = nextId - 1
  /\ \E i, j \in 1..Len(clients[1].seen) :
        /\ i < j
        /\ clients[1].seen[i].id = clients[1].res.spaceId
        /\ clients[1].seen[j].type = clients[1].seen[i].type
        /\ clients[1].seen[j].priorityOrder = clients[1].seen[i].priorityOrder
        /\ \A k \in 1..Len(bookings) : bookings[k].spaceId # clients[1].seen[j].id

\* C8 (as stated): in server.js and server_fixed_upload.js, under any
\* interleaving of concurrent requests, two requests whose occurrences overlap
\* on the same space are never both admitted.
C8_OverlappingNeverBothAdmitted ==
  variant \in {"server.js", "server_fixed_upload.js"} =>
    \A c, d \in Clients :
      (c # d /\ clients[c].pc = "done" /\ clients[d].pc = "done"
         /\ clients[c].res.status = 200 /\ clients[d].res.status = 200)
      => ~Collide([clients[c].req EXCEPT !.spaceId = clients[c].res.spaceId],
                  [clients[d].req EXCEPT !.spaceId = clients[d].res.spaceId])

\* C9 (as stated): in server.js, a stored recurring booking makes every
\* request whose window overlaps its window unavailable on every date its
\* rule matches, dates before its first date included.
C9_RecurringBlocksEveryMatchingDate ==
  variant = "server.js" =>
    \A i \in 1..Len(bookings) : bookings[i].recurring.obj =>
      \A date \in MatchingDates[bookings[i].recurring], w \in Windows :
        Intersect(w[1], w[2], bookings[i].startTime, bookings[i].endTime)
          => ~isSpaceAvailable(bookings[i].spaceId, date, w[1], w[2])

\* C10 (as stated): in server.js and part_002, the weekly rule of a stored
\* booking matches a date exactly when the date's weekday is the rule's; a
\* stored weekly booking 09:00-10:00 that starts on a Monday and is alone on
\* its space makes 09:30-10:00 unavailable and leaves 10:00-10:30 available
\* on every later Monday.
C10_WeeklyMatchesWeekday ==
  variant \in {"server.js", "part_002"} =>
    \A i \in 1..Len(bookings) :
      (bookings[i].recurring.obj /\ bookings[i].recurring.frequency = "weekly") =>
        /\ \A n \in ScanDays :
              isRecurringOnDate(variant, tz, n, bookings[i].recurring)
                <=> Cal[n].wd = bookings[i].recurring.weekday
        /\ (/\ Len(bookings) = 1
            /\ bookings[i].startTime = T0900 /\ bookings[i].endTime = T1000
            /\ bookings[i].recurring.weekday = 1 /\ Cal[bookings[i].date].wd = 1)
           => \A n \in ScanDays : (n > bookings[i].date /\ Cal[n].wd = 1) =>
                /\ ~isSpaceAvailable(bookings[i].spaceId, n, T0930, T1000)
                /\ isSpaceAvailable(bookings[i].spaceId, n, T1000, T1030)

\* the number of days of the calendar month of day n
DaysInMonth(n) ==
  DayNumber(Cal[n].y, Cal[n].m + 1, 1) - DayNumber(Cal[n].y, Cal[n].m, 1)

\* C11 (as stated): in server.js, the day-of-month rule of a stored booking,
\* and the rule for day 31 beside it, matches a date exactly when the date's
\* day of the month is the rule's: the rule for day 31 matches no date of a
\* month of 28, 29 or 30 days and matches day 31 of every month of 31 days.
C11_DayOfMonthMatchesDay ==
  variant = "server.js" =>
    \A i \in 1..Len(bookings) : bookings[i].recurring.dayOfMonth # Absent =>
      /\ \A d \in {bookings[i].recurring.dayOfMonth, 31}, n \in ScanDays :
            recursOn(variant, tz, n, DayOfMonth(d)) <=> Cal[n].d = d
      /\ \A n \in ScanDays :
            /\ DaysInMonth(n) < 31 => ~recursOn(variant, tz, n, DayOfMonth(31))
            /\ (DaysInMonth(n) = 31 /\ Cal[n].d = 31)
                 => recursOn(variant, tz, n, DayOfMonth(31))

\* the first day of the calendar month of day n
MonthStart(n) == n - Cal[n].d + 1
\* the days of the month of day n, from day 1 through n, that have the
\* weekday of n
WeekdaysThrough(n) == {k \in MonthStart(n)..n : Cal[k].wd = Cal[n].wd}
\* the days of the month that starts on day first
MonthDays(first) == first .. (first + DaysInMonth(first) - 1)
\* the first days of the months that lie within the tabulated calendar
MonthStarts == {n \in ScanDays : Cal[n].d = 1 /\ n + 31 \in ScanDays}

\* C12 (as stated): in server.js, the nth-weekday rule (n, w) of a stored
\* booking, and the rule for the 5th Monday beside it, matches a date exactly
\* when the date's weekday is w and the date is the n-th date of that weekday
\* in its month; in every month it matches exactly one date when the month
\* has at least n such weekdays and no date otherwise.
C12_NthWeekdayMatchesOncePerMonth ==
  variant = "server.js" =>
    \A i \in 1..Len(bookings) :
      (bookings[i].recurring.nth # Absent /\ bookings[i].recurring.dayOfMonth = Absent) =>
        \A r \in {bookings[i].recurring, NthWeekday(5, 1)} :
          /\ \A n \in ScanDays :
                recursOn(variant, tz, n, r)
                  <=> (Cal[n].wd = r.weekday /\ Cardinality(WeekdaysThrough(n)) = r.nth)
          /\ \A first \in MonthStarts :
                Cardinality({k \in MonthDays(first) : recursOn(variant, tz, k, r)})
                  = IF Cardinality({k \in MonthDays(first) : Cal[k].wd = r.weekday}) >= r.nth
                    THEN 1 ELSE 0

\* C13: in server.js, isRecurringOnDate answers false on every date for an
\* absent rule and for a rule object that lacks the fields of every variant,
\* and a stored booking with such a rule takes its space on its own first
\* date only: on every other date the space is as available as without it.
C13_MalformedRuleNeverRecurs ==
  variant = "server.js" =>
    /\ \A r \in MalformedRules \cup {NoRule} :
          RecurringTable[variant][tz][r] = {}
    /\ \A i \in 1..Len(bookings) :
          bookings[i].recurring \in MalformedRules \cup {NoRule} =>
            /\ \A date \in ScanDays \ {bookings[i].date} :
                  ~occursOnDate(variant, tz, bookings[i], date)
            /\ \A date \in Dates \ {bookings[i].date}, w \in Windows :
                  isSpaceAvailable(bookings[i].spaceId, date, w[1], w[2])
                    <=> isSpaceAvailableIn(variant, tz, removeId(bookings, bookings[i].id),
                                           bookings[i].spaceId, date, w[1], w[2])

\* C13 witness: a booking with the rule {weekday: 1} is stored alone, from
\* Monday 2024-01-01 on, and its space is available for its window on the
\* Monday five weeks later
C13_WeekdayOnlyRuleStored ==
  /\ variant = "server.js"
  /\ Len(bookings) = 1
  /\ bookings[1].recurring = OnlyWeekday(1)
  /\ bookings[1].date = 0 /\ Cal[35].wd = 1
  /\ isSpaceAvailable(bookings[1].spaceId, 35, bookings[1].startTime, bookings[1].endTime)

\* C14 (as stated): in server.js, for every stored booking B and every
\* window A a request can carry, a candidate A is judged to overlap the
\* existing B exactly when a candidate with B's window is judged to overlap
\* an existing booking with A's window.
C14_OverlapSymmetric ==
  variant = "server.js" =>
    \A i \in 1..Len(bookings), w \in Windows \cup {ReversedWindow} :
      overlaps(bookings[i], w[1], w[2])
        <=> overlaps([startTime |-> w[1], endTime |-> w[2]],
                     bookings[i].startTime, bookings[i].endTime)

C16_NoTimezoneShift ==
  variant = "server.js" =>
    \A i \in 1..Len(bookings) : bookings[i].recurring.obj =>
      /\ \A off \in TZOffsets :
            RecurringTable[variant][off][bookings[i].recurring]
              = MatchingDates[bookings[i].recurring]
      /\ \A dateStr \in scannedDates(tz, bookings[i].date) :
            LocalDay(tz, ParseDate(dateStr)) = dateStr

\* C17 (as stated): in server.js, a call of checkRecurringAvailability that
\* entered its loop returns; it examines no more than 366 date strings and
\* none of them twice, and the booking list is the same from call to return.
C17_ScanTerminatesEachDateOnce ==
  /\ [](scan.n <= 366 /\ Cardinality(scan.examined) = scan.n)
  /\ (scan.pc = "loop") ~> (scan.pc = "returned")
  /\ [][scan.pc = "loop" => bookings' = bookings]_vars

\* the bookings of a list other than the one with the id
without(bk, id) == SelectSeq(bk, LAMBDA b : b.id # id)

\* C18 (as stated): in server.js, while a booking with a rule is stored its
\* space is unavailable for its window on every date from its first date on
\* that its rule matches; a step of DELETE /api/bookings/:id or GET
\* /cancel/:id that removes a booking leaves a list on which isSpaceAvailable
\* answers, for every space, date and window, as on the list of the other
\* bookings alone.
C18_ReservedWhileStored ==
  /\ [](variant = "server.js" =>
          \A i \in 1..Len(bookings) : bookings[i].recurring.obj =>
            \A date \in MatchingDates[bookings[i].recurring] :
              date >= bookings[i].date =>
                ~isSpaceAvailable(bookings[i].spaceId, date,
                                  bookings[i].startTime, bookings[i].endTime))
  /\ [][(variant = "server.js" /\ Len(bookings') < Len(bookings)) =>
          \E i \in 1..Len(bookings) :
            /\ bookings' = without(bookings, bookings[i].id)
            /\ \A spaceId \in {3, 4}, w \in Windows,
                  date \in Dates \cup MatchingDates[bookings[i].recurring] :
                  isSpaceAvailableIn(variant, tz, bookings', spaceId, date, w[1], w[2])
                    <=> isSpaceAvailableIn(variant, tz, without(bookings, bookings[i].id),
                                           spaceId, date, w[1], w[2])]_vars

C20_CancelAnswersAndPersists ==
  /\ [][(/\ variant \in {"server.js", "server_fixed_upload.js", "part_004"}
          /\ clients[1].pc = "pending" /\ clients[1].req.op = "cancel"
          /\ clients'[1].pc # "pending")
         => IF hasBooking(clients[1].req.id)
            THEN /\ clients'[1].res.status = 200
                 /\ bookings' = without(bookings, clients[1].req.id)
                 /\ saved' = bookings'
            ELSE /\ clients'[1].res.status = 404
                 /\ bookings' = bookings]_vars
  /\ (/\ variant \in {"server.js", "server_fixed_upload.js", "part_004"}
       /\ clients[1].pc = "pending" /\ clients[1].req.op = "cancel")
        ~> (clients[1].pc = "done" /\ clients[1].req.op = "cancel")

\* C21: in server.js, every stored booking, whichever of POST /api/bookings
\* and GET /api/bookings/auto admitted it, ends no earlier than it starts and
\* lasts at most MAX_BOOKING_HOURS hours.
C21_StoredWindowsWellFormed ==
  variant = "server.js" =>
    \A i \in 1..Len(bookings) :
      /\ TimeLe(bookings[i].startTime, bookings[i].endTime)
      /\ minutes(bookings[i].endTime) - minutes(bookings[i].startTime)
           <= MAX_BOOKING_HOURS * 60

\* C22: in server.js, every booking a step of POST /api/bookings or
\* GET /api/bookings/auto adds to the list carries an address that was on
\* verifiedEmails when the handler ran.
C22_OnlyVerifiedEmailsBook ==
  [][variant = "server.js" =>
       \A i \in 1..Len(bookings') :
          (\A j \in 1..Len(bookings) : bookings[j].id # bookings'[i].id)
            => includes(verifiedEmails, bookings'[i].email)]_vars

\* C24: in server.js and server_fixed_upload.js, POST
\* /api/request-verification answers a company address with the response it
\* gives when no address is verified, whatever verifiedEmails holds: status
\* 200 and the same body, so that the body does not tell whether the address
\* is on the list.
C24_SameResponseVerifiedOrNot ==
  variant \in {"server.js", "server_fixed_upload.js"} =>
    \A email \in VerificationEmails :
      endsWithCompanyDomain(Normalise(email)) =>
        /\ requestVerificationResponse(email).status = 200
        /\ requestVerificationResponse(email)
             = requestVerificationResponseIn(<<>>, email)

\* C23: in server.js and server_fixed_upload.js, after any sequence of
\* logins, admin creations, admin deletions and bootstrap-admin calls, the
\* admins list holds at least one account with the role 'owner'.
C23_AlwaysAnOwner ==
  variant \in {"server.js", "server_fixed_upload.js"} => ownerCount(admins) >= 1

\* C27: in server.js and server_fixed_upload.js, every token adminAuth
\* accepts is the token of an account that is on the admins list, and the
\* role adminAuth grants is the role stored for that account; the token of
\* a deleted account is granted neither 'owner' nor 'admin'.
C27_TokenGrantsStoredRole ==
  variant \in {"server.js", "server_fixed_upload.js"} =>
    \A m \in tokens :
      /\ adminAuth(m[1]).status = 200
      /\ \E i \in 1..Len(admins) :
            admins[i].id = m[2] /\ admins[i].role = adminAuth(m[1]).role
      /\ ~hasAdmin(admins, m[2]) => adminAuth(m[1]).role \notin {"owner", "admin"}

\* C26: in server.js, a handler of POST /api/bookings or GET
\* /api/bookings/auto that answers anything but 200 (400 for missing fields,
\* a foreign address, an 'auto-' space id, end before start, more than twelve
\* hours, an unavailable first date or a conflicting later occurrence, 404
\* for an unknown space or no free space) leaves the bookings list, the
\* space registry, the id counters and the data file as they were.
C26_RejectionLeavesStateUnchanged ==
  [][\A c \in Clients :
       (/\ variant = "server.js"
        /\ clients[c].pc = "pending" /\ clients'[c].pc = "done"
        /\ clients[c].req.op \in {"post", "auto"}
        /\ clients'[c].res.status # 200) =>
         /\ bookings' = bookings /\ spaces' = spaces
         /\ nextId' = nextId /\ nextSpaceId' = nextSpaceId
         /\ saved' = saved]_vars

\* C26 witness: a weekly booking of a desk was answered 400 for its conflict
\* with a stored booking five weeks after its first date, and that booking
\* is still the only one stored
C26_FutureConflictRejected ==
  /\ variant = "server.js"
  /\ clients[1].pc = "done" /\ clients[1].req.op = "post"
  /\ clients[1].req.recurring = Weekly(1) /\ clients[1].req.date = 0
  /\ clients[1].res.status = 400
  /\ clients[1].res.error
       = "Recurring booking conflicts with an existing booking in a future period"
  /\ Len(bookings) = 1 /\ bookings[1].date = 35

\* C25: in server_fixed_upload.js with a database, whatever the
\* interleaving of the calls of saveData and whichever query fails, the
\* bookings table holds the rows it held at the start (none) or exactly the
\* bookings that were in memory when one of the calls was made, and a call
\* that fails leaves the table as it was.
C25_DatabaseWriteAllOrNothing ==
  /\ [](db.configured =>
          \/ db.rows = {}
          \/ \E k \in 1..Len(saveCalls) : db.rows = saveCalls[k].memory)
  /\ [][\A k \in 1..Len(saveCalls) :
          (saveCalls[k].pc # "failed" /\ saveCalls'[k].pc = "failed") => db' = db]_vars

====
